---- MODULE Spec2Model ----
(***************************************************************************)
(* State-machine model of the Sudoku game engine of sudoku_app/app.py:     *)
(* the GameState record, the catalog PUZZLES, the key/button handlers of   *)
(* SudokuApp, conflict detection, the completion check, save and load.     *)
(*                                                                         *)
(* Grids are 9-tuples of 9-tuples; the source's 0-based cell (row, col) is *)
(* the element [row + 1][col + 1].  Time is counted in half seconds so     *)
(* that the int() truncation of the timer is not the identity.             *)
(***************************************************************************)
EXTENDS Integers, Sequences, FiniteSets, TLC

(* ---- bounds of the exploration -------------------------------------- *)
(* MaxMistakes caps state.mistakes in KeyDigit; HintButton explores the    *)
(* random choice on boards with at most MaxEmpties empty cells and while   *)
(* hints_used < MaxHints; AdvanceClock stops at MaxClock half seconds;     *)
(* the grids of SpecConflicts hold the digits 0 .. MaxDigit; HintAmongFirst *)
(* draws the random cell from the first MaxChoice empty cells.             *)
MaxMistakes == 1
MaxEmpties == 2
MaxHints == 1
MaxClock == 2
MaxDigit == 2
MaxChoice == 2

(* digits the player types, and cells the player clicks *)
KeyDigits == {"3", "9"}
ClickCells == {<<0, 1>>, <<1, 1>>}

(* ---- program constants ---------------------------------------------- *)
GRID_SIZE == 9
TicksPerSecond == 2

Rows == 0 .. (GRID_SIZE - 1)
Cells == Rows \X Rows
None == <<>>

EasyPuzzle ==
   << <<5, 0, 4, 6, 0, 8, 9, 1, 2>>,
      <<6, 7, 0, 1, 9, 5, 0, 4, 8>>,
      <<1, 9, 8, 3, 0, 2, 0, 6, 7>>,
      <<8, 0, 9, 7, 6, 1, 4, 0, 3>>,
      <<4, 2, 6, 0, 5, 0, 7, 9, 0>>,
      <<7, 0, 3, 9, 2, 4, 8, 0, 6>>,
      <<9, 6, 1, 5, 0, 7, 2, 8, 4>>,
      <<2, 8, 0, 4, 1, 9, 0, 3, 5>>,
      <<3, 4, 0, 2, 0, 6, 1, 0, 9>> >>

EasySolution ==
   << <<5, 3, 4, 6, 7, 8, 9, 1, 2>>,
      <<6, 7, 2, 1, 9, 5, 3, 4, 8>>,
      <<1, 9, 8, 3, 4, 2, 5, 6, 7>>,
      <<8, 5, 9, 7, 6, 1, 4, 2, 3>>,
      <<4, 2, 6, 8, 5, 3, 7, 9, 1>>,
      <<7, 1, 3, 9, 2, 4, 8, 5, 6>>,
      <<9, 6, 1, 5, 3, 7, 2, 8, 4>>,
      <<2, 8, 7, 4, 1, 9, 6, 3, 5>>,
      <<3, 4, 5, 2, 8, 6, 1, 7, 9>> >>

NormalPuzzle ==
   << <<0, 0, 0, 2, 6, 0, 7, 0, 1>>,
      <<6, 8, 0, 0, 7, 0, 0, 9, 0>>,
      <<1, 9, 0, 0, 0, 4, 5, 0, 0>>,
      <<8, 2, 0, 1, 0, 0, 0, 4, 0>>,
      <<0, 0, 4, 6, 0, 2, 9, 0, 0>>,
      <<0, 5, 0, 0, 0, 3, 0, 2, 8>>,
      <<0, 0, 9, 3, 0, 0, 0, 7, 4>>,
      <<0, 4, 0, 0, 5, 0, 0, 3, 6>>,
      <<7, 0, 3, 0, 1, 8, 0, 0, 0>> >>

NormalSolution ==
   << <<4, 3, 5, 2, 6, 9, 7, 8, 1>>,
      <<6, 8, 2, 5, 7, 1, 4, 9, 3>>,
      <<1, 9, 7, 8, 3, 4, 5, 6, 2>>,
      <<8, 2, 6, 1, 9, 5, 3, 4, 7>>,
      <<3, 7, 4, 6, 8, 2, 9, 1, 5>>,
      <<9, 5, 1, 7, 4, 3, 6, 2, 8>>,
      <<5, 1, 9, 3, 2, 6, 8, 7, 4>>,
      <<2, 4, 8, 9, 5, 7, 1, 3, 6>>,
      <<7, 6, 3, 4, 1, 8, 2, 5, 9>> >>

HardPuzzle ==
   << <<0, 0, 0, 0, 0, 0, 2, 0, 0>>,
      <<0, 8, 0, 0, 0, 7, 0, 9, 0>>,
      <<6, 0, 2, 0, 0, 0, 5, 0, 0>>,
      <<0, 7, 0, 0, 6, 0, 0, 0, 0>>,
      <<0, 0, 0, 9, 0, 1, 0, 0, 0>>,
      <<0, 0, 0, 0, 2, 0, 0, 4, 0>>,
      <<0, 0, 5, 0, 0, 0, 6, 0, 3>>,
      <<0, 9, 0, 4, 0, 0, 0, 7, 0>>,
      <<0, 0, 6, 0, 0, 0, 0, 0, 0>> >>

HardSolution ==
   << <<9, 5, 7, 6, 1, 3, 2, 8, 4>>,
      <<4, 8, 3, 2, 5, 7, 1, 9, 6>>,
      <<6, 1, 2, 8, 4, 9, 5, 3, 7>>,
      <<1, 7, 8, 3, 6, 4, 9, 5, 2>>,
      <<5, 2, 4, 9, 7, 1, 3, 6, 8>>,
      <<3, 6, 9, 5, 2, 8, 7, 4, 1>>,
      <<8, 4, 5, 7, 9, 2, 6, 1, 3>>,
      <<2, 9, 1, 4, 3, 6, 8, 7, 5>>,
      <<7, 3, 6, 1, 8, 5, 4, 2, 9>> >>

(* mutation: two digits of the first row of the hard solution are swapped *)
PUZZLES_with_typo ==
   [easy |-> << [puzzle |-> EasyPuzzle, solution |-> EasySolution] >>,
    normal |-> << [puzzle |-> NormalPuzzle, solution |-> NormalSolution] >>,
    hard |->
       << [puzzle |-> HardPuzzle,
           solution |->
              [HardSolution EXCEPT
                 ![1] = [@ EXCEPT ![1] = HardSolution[1][2],
                                  ![2] = HardSolution[1][1]]]] >>]

(* PUZZLES: difficulty -> list of catalog entries *)
PUZZLES ==
   [easy   |-> << [puzzle |-> EasyPuzzle,   solution |-> EasySolution] >>,
    normal |-> << [puzzle |-> NormalPuzzle, solution |-> NormalSolution] >>,
    hard   |-> << [puzzle |-> HardPuzzle,   solution |-> HardSolution] >>]

(* the combobox values and new_game's mapping to catalog keys *)
ComboValues == {"Easy", "Normal", "Hard"}

mapping(text) ==
   CASE text = "Easy" -> "easy"
     [] text = "Normal" -> "normal"
     [] text = "Hard" -> "hard"
     [] OTHER -> "normal"

(* str.capitalize() on the three difficulty tags *)
capitalize(text) ==
   CASE text = "easy" -> "Easy"
     [] text = "normal" -> "Normal"
     [] text = "hard" -> "Hard"
     [] OTHER -> text

(* ---- grids ------------------------------------------------------------ *)
Get(grid, row, col) == grid[row + 1][col + 1]

Put(grid, row, col, value) == [grid EXCEPT ![row + 1][col + 1] = value]

(* [[set() for _ in range(9)] for _ in range(9)] *)
EmptyNotes == [r \in 1 .. GRID_SIZE |-> [c \in 1 .. GRID_SIZE |-> {}]]

(* [[value != 0 for value in row] for row in puzzle] *)
FixedMaskOf(puzzle) ==
   [r \in 1 .. GRID_SIZE |-> [c \in 1 .. GRID_SIZE |-> puzzle[r][c] # 0]]

(* int(x / TicksPerSecond): truncation toward zero *)
IntSeconds(ticks) ==
   IF ticks >= 0 THEN ticks \div TicksPerSecond
                 ELSE 0 - ((0 - ticks) \div TicksPerSecond)

(* ---- variables -------------------------------------------------------- *)
VARIABLES
   state,          \* self.state : GameState
   selected,       \* self.selected : (row, col) or None
   conflicts,      \* self.conflicts : set of (row, col)
   memo_mode,      \* self.memo_mode
   difficulty_var, \* self.difficulty_var
   status_var,     \* self.status_var, as a tag for the message text
   dialog,         \* messagebox shown by the latest handler, if any
   now,            \* time.time(), in half seconds
   file,           \* the content of the file save_game writes
   event           \* the event dispatched last: [type, arg]

vars == <<state, selected, conflicts, memo_mode, difficulty_var, status_var,
          dialog, now, file, event>>

NoDialog == "none"

(* save_game has written nothing yet *)
NoFile == [kind |-> "missing"]

(* the app object as one value, so that handlers are functions app -> app *)
Self ==
   [state |-> state, selected |-> selected, conflicts |-> conflicts,
    memo_mode |-> memo_mode, difficulty_var |-> difficulty_var,
    status_var |-> status_var, dialog |-> dialog]

(* a handler starts with no dialog on screen *)
Entry == [Self EXCEPT !.dialog = NoDialog]

Install(a) ==
   /\ state' = a.state
   /\ selected' = a.selected
   /\ conflicts' = a.conflicts
   /\ memo_mode' = a.memo_mode
   /\ difficulty_var' = a.difficulty_var
   /\ status_var' = a.status_var
   /\ dialog' = a.dialog

(* ---- GameState construction ------------------------------------------- *)
new_state(difficulty, entry, clock) ==
   [puzzle |-> entry.puzzle,
    solution |-> entry.solution,
    user_grid |-> entry.puzzle,
    notes |-> EmptyNotes,
    fixed_mask |-> FixedMaskOf(entry.puzzle),
    mistakes |-> 0,
    elapsed_seconds |-> 0,
    difficulty |-> difficulty,
    started_at |-> clock,
    hints_used |-> 0]

(* ---- conflict detection ----------------------------------------------- *)
Peers ==
   [cell \in Cells |->
      LET row == cell[1]
          col == cell[2]
          br == (row \div 3) * 3
          bc == (col \div 3) * 3
      IN  {<<row, c>> : c \in Rows \ {col}}
             \cup {<<r, col>> : r \in Rows \ {row}}
             \cup ({<<r, c>> : r \in br .. (br + 2), c \in bc .. (bc + 2)}
                      \ {cell})]

(* mutation: the peers of the 3x3 block are left out *)
collect_conflicts_lines_only(grid) ==
   {cell \in Cells :
      LET value == Get(grid, cell[1], cell[2])
      IN  /\ value # 0
          /\ \E p \in Cells :
                /\ p # cell
                /\ (p[1] = cell[1] \/ p[2] = cell[2])
                /\ Get(grid, p[1], p[2]) = value}

collect_conflicts(grid) ==
   {cell \in Cells :
      LET value == Get(grid, cell[1], cell[2])
      IN  /\ value # 0
          /\ \E p \in Peers[cell] : Get(grid, p[1], p[2]) = value}

(* mutation: the board is redrawn with the conflicts found earlier *)
refresh_all_redraws_only(a) == a

refresh_all(a) ==
   [a EXCEPT !.conflicts = collect_conflicts(a.state.user_grid)]

(* ---- completion check ------------------------------------------------- *)
(* mutation: a full grid without conflicts counts as complete *)
check_completed_by_rules(a) ==
   LET grid == a.state.user_grid
   IN  IF \E cell \in Cells : Get(grid, cell[1], cell[2]) = 0 THEN a
       ELSE IF a.conflicts # {} THEN a
       ELSE [a EXCEPT !.dialog = "clear", !.status_var = "GameClear"]

check_completed(a) ==
   LET grid == a.state.user_grid
   IN  IF \E cell \in Cells : Get(grid, cell[1], cell[2]) = 0 THEN a
       ELSE IF a.conflicts # {} THEN a
       ELSE IF grid # a.state.solution THEN a
       ELSE [a EXCEPT !.dialog = "clear", !.status_var = "GameClear"]

(* ---- key handlers ----------------------------------------------------- *)
(* mutation: a pencil mark is only ever added *)
ToggleNote_add_only(notes, value) == notes \cup {value}

(* if value in notes: notes.remove(value) else: notes.add(value) *)
ToggleNote(notes, value) ==
   IF value \in notes THEN notes \ {value} ELSE notes \cup {value}

(* the memo-mode branch of _apply_number *)
toggle_note(a, row, col, value) ==
   LET notes == ToggleNote(Get(a.state.notes, row, col), value)
   IN  [a EXCEPT
          !.state.notes = Put(@, row, col, notes),
          !.status_var = IF value \in notes THEN "NoteAdded"
                                            ELSE "NoteRemoved"]

(* mutation: a blocking validator, a wrong value is counted but not written *)
enter_value_blocking(a, row, col, value) ==
   IF value # Get(a.state.solution, row, col)
   THEN [a EXCEPT !.state.notes = Put(@, row, col, {}),
                  !.state.mistakes = @ + 1,
                  !.status_var = "MaybeWrong"]
   ELSE [a EXCEPT !.state.user_grid = Put(@, row, col, value),
                  !.state.notes = Put(@, row, col, {}),
                  !.status_var = "Entered"]

(* mutation: every written value is counted as a mistake *)
enter_value_always_counts(a, row, col, value) ==
   [a EXCEPT
      !.state.user_grid = Put(@, row, col, value),
      !.state.notes = Put(@, row, col, {}),
      !.state.mistakes = @ + 1,
      !.status_var = "MaybeWrong"]

(* mutation: the pencil marks of the cell survive the write *)
enter_value_keeps_notes(a, row, col, value) ==
   [a EXCEPT
      !.state.user_grid = Put(@, row, col, value),
      !.state.mistakes =
         IF value # Get(a.state.solution, row, col) THEN @ + 1 ELSE @,
      !.status_var =
         IF value # Get(a.state.solution, row, col) THEN "MaybeWrong"
                                                    ELSE "Entered"]

(* mutation: the board shares its rows with the puzzle, so a write lands   *)
(* in both                                                                 *)
enter_value_writes_puzzle(a, row, col, value) ==
   [a EXCEPT
      !.state.user_grid = Put(@, row, col, value),
      !.state.puzzle = Put(@, row, col, value),
      !.state.notes = Put(@, row, col, {}),
      !.state.mistakes =
         IF value # Get(a.state.solution, row, col) THEN @ + 1 ELSE @,
      !.status_var =
         IF value # Get(a.state.solution, row, col) THEN "MaybeWrong"
                                                    ELSE "Entered"]

(* mutation: a right digit takes a mistake back *)
enter_value_refunds(a, row, col, value) ==
   [a EXCEPT
      !.state.user_grid = Put(@, row, col, value),
      !.state.notes = Put(@, row, col, {}),
      !.state.mistakes =
         IF value # Get(a.state.solution, row, col) THEN @ + 1
         ELSE IF @ > 0 THEN @ - 1 ELSE @,
      !.status_var =
         IF value # Get(a.state.solution, row, col) THEN "MaybeWrong"
                                                    ELSE "Entered"]

(* the branch of _apply_number outside memo mode *)
enter_value(a, row, col, value) ==
   [a EXCEPT
      !.state.user_grid = Put(@, row, col, value),
      !.state.notes = Put(@, row, col, {}),
      !.state.mistakes =
         IF value # Get(a.state.solution, row, col) THEN @ + 1 ELSE @,
      !.status_var =
         IF value # Get(a.state.solution, row, col) THEN "MaybeWrong"
                                                    ELSE "Entered"]

(* mutation: the fixed-cell guard is skipped in memo mode *)
apply_number_memo_unguarded(a, row, col, value) ==
   IF Get(a.state.fixed_mask, row, col) /\ ~a.memo_mode
   THEN [a EXCEPT !.status_var = "FixedCellEdit"]
   ELSE check_completed(refresh_all(
           IF a.memo_mode THEN toggle_note(a, row, col, value)
                          ELSE enter_value(a, row, col, value)))

apply_number(a, row, col, value) ==
   IF Get(a.state.fixed_mask, row, col)
   THEN [a EXCEPT !.status_var = "FixedCellEdit"]
   ELSE check_completed(refresh_all(
           IF a.memo_mode THEN toggle_note(a, row, col, value)
                          ELSE enter_value(a, row, col, value)))

(* mutation: clearing also takes back a mistake *)
clear_cell_forgives(a, row, col) ==
   IF Get(a.state.fixed_mask, row, col)
   THEN [a EXCEPT !.status_var = "FixedCellEdit"]
   ELSE refresh_all([a EXCEPT
                       !.state.user_grid = Put(@, row, col, 0),
                       !.state.notes = Put(@, row, col, {}),
                       !.state.mistakes = IF @ > 0 THEN @ - 1 ELSE @,
                       !.status_var = "Cleared"])

clear_cell(a, row, col) ==
   IF Get(a.state.fixed_mask, row, col)
   THEN [a EXCEPT !.status_var = "FixedCellEdit"]
   ELSE refresh_all([a EXCEPT
                       !.state.user_grid = Put(@, row, col, 0),
                       !.state.notes = Put(@, row, col, {}),
                       !.status_var = "Cleared"])

(* int(event.char) for the digit keys *)
int ==
   [char \in {"1", "2", "3", "4", "5", "6", "7", "8", "9"} |->
      CASE char = "1" -> 1 [] char = "2" -> 2 [] char = "3" -> 3
        [] char = "4" -> 4 [] char = "5" -> 5 [] char = "6" -> 6
        [] char = "7" -> 7 [] char = "8" -> 8 [] char = "9" -> 9]

(* _on_key_press for the keys "m", "1".."9", "BackSpace" and "Delete",     *)
(* where keysym and char coincide for the printable keys                   *)
on_key_press(a, keysym) ==
   IF keysym = "m"
   THEN [a EXCEPT !.memo_mode = ~@,
                  !.status_var = IF ~a.memo_mode THEN "MemoOn" ELSE "MemoOff"]
   ELSE IF a.selected = None THEN a
   ELSE IF keysym \in DOMAIN int
        THEN apply_number(a, a.selected[1], a.selected[2], int[keysym])
   ELSE IF keysym \in {"BackSpace", "Delete"}
        THEN clear_cell(a, a.selected[1], a.selected[2])
   ELSE a

on_canvas_click(a, row, col) ==
   IF row \in Rows /\ col \in Rows
   THEN [a EXCEPT !.selected = <<row, col>>, !.status_var = "Selected"]
   ELSE a

(* ---- buttons ---------------------------------------------------------- *)
(* mutation: the selection survives the deal *)
new_game_keeps_selection(a, entry, clock) ==
   LET difficulty == mapping(a.difficulty_var)
   IN  refresh_all([a EXCEPT
                      !.state = new_state(difficulty, entry, clock),
                      !.conflicts = {},
                      !.status_var = "NewGame"])

new_game(a, entry, clock) ==
   LET difficulty == mapping(a.difficulty_var)
   IN  refresh_all([a EXCEPT
                      !.state = new_state(difficulty, entry, clock),
                      !.selected = None,
                      !.conflicts = {},
                      !.status_var = "NewGame"])

(* mutation: the start timestamp is not restarted *)
reset_game_keeps_clock(a, clock) ==
   refresh_all([a EXCEPT
                  !.state.user_grid = a.state.puzzle,
                  !.state.notes = EmptyNotes,
                  !.state.mistakes = 0,
                  !.state.elapsed_seconds = 0,
                  !.status_var = "Reset"])

reset_game(a, clock) ==
   refresh_all([a EXCEPT
                  !.state.user_grid = a.state.puzzle,
                  !.state.notes = EmptyNotes,
                  !.state.mistakes = 0,
                  !.state.started_at = clock,
                  !.state.elapsed_seconds = 0,
                  !.status_var = "Reset"])

(* mutation: a check that finds conflicts counts as a mistake *)
check_board_counts_mistake(a) ==
   LET found == collect_conflicts(a.state.user_grid)
   IN  [a EXCEPT !.conflicts = found,
                 !.state.mistakes = IF found # {} THEN @ + 1 ELSE @,
                 !.status_var = IF found # {} THEN "Conflicts"
                                              ELSE "NoConflicts"]

check_board(a) ==
   LET found == collect_conflicts(a.state.user_grid)
   IN  [a EXCEPT !.conflicts = found,
                 !.status_var = IF found # {} THEN "Conflicts"
                                              ELSE "NoConflicts"]

empties(a) == {cell \in Cells : Get(a.state.user_grid, cell[1], cell[2]) = 0}

(* mutation: the hint is not counted *)
give_hint_uncounted(a, cell) ==
   IF empties(a) = {}
   THEN [a EXCEPT !.status_var = "NoEmptyCell"]
   ELSE
      LET row == cell[1]
          col == cell[2]
      IN  check_completed(refresh_all(
             [a EXCEPT
                !.state.user_grid =
                   Put(@, row, col, Get(a.state.solution, row, col)),
                !.state.notes = Put(@, row, col, {}),
                !.status_var = "HintUsed"]))

(* mutation: the notes of the hinted cell stay *)
give_hint_keeps_notes(a, cell) ==
   IF empties(a) = {}
   THEN [a EXCEPT !.status_var = "NoEmptyCell"]
   ELSE
      LET row == cell[1]
          col == cell[2]
      IN  check_completed(refresh_all(
             [a EXCEPT
                !.state.user_grid =
                   Put(@, row, col, Get(a.state.solution, row, col)),
                !.state.hints_used = @ + 1,
                !.status_var = "HintUsed"]))

(* give_hint, with cell the outcome of random.choice(empties) *)
give_hint(a, cell) ==
   IF empties(a) = {}
   THEN [a EXCEPT !.status_var = "NoEmptyCell"]
   ELSE
      LET row == cell[1]
          col == cell[2]
      IN  check_completed(refresh_all(
             [a EXCEPT
                !.state.user_grid =
                   Put(@, row, col, Get(a.state.solution, row, col)),
                !.state.notes = Put(@, row, col, {}),
                !.state.hints_used = @ + 1,
                !.status_var = "HintUsed"]))

(* ---- timer ------------------------------------------------------------ *)
(* mutation: every tick adds a second *)
tick_timer_counts_calls(a, clock) ==
   [a EXCEPT !.state.elapsed_seconds = @ + 1]

tick_timer(a, clock) ==
   [a EXCEPT !.state.elapsed_seconds = IntSeconds(clock - a.state.started_at)]

(* ---- the objects json.loads returns ----------------------------------- *)
(* a Python object with its type, so that len(), isinstance() and `in`     *)
(* can be modelled on it; the documents hold int, bool, str, None and list *)
(* objects, and the top-level dict                                         *)
PyInt(n) == [type |-> "int", value |-> n]

(* True is 1 and False is 0 in every comparison *)
PyBool(n) == [type |-> "bool", value |-> n]

PyStr(s) == [type |-> "str", value |-> s]

PyNone == [type |-> "NoneType"]

PyList(items) == [type |-> "list", items |-> items]

PyDict(items) == [type |-> "dict", items |-> items]

(* json.loads(json.dumps(payload)) for a payload of int grids, lists of    *)
(* int lists, int counters and a str                                       *)
loads_dumps(payload) ==
   LET grid(g) ==
          PyList([r \in DOMAIN g |->
                    PyList([c \in DOMAIN g[r] |-> PyInt(g[r][c])])])
       notes(n) ==
          PyList([r \in DOMAIN n |->
                    PyList([c \in DOMAIN n[r] |->
                              PyList([i \in DOMAIN n[r][c] |->
                                        PyInt(n[r][c][i])])])])
   IN  PyDict([key \in DOMAIN payload |->
                 CASE key \in {"puzzle", "solution", "user_grid"} ->
                         grid(payload[key])
                   [] key = "notes" -> notes(payload[key])
                   [] key = "difficulty" -> PyStr(payload[key])
                   [] OTHER -> PyInt(payload[key])])

(* ---- load ------------------------------------------------------------- *)
REQUIRED ==
   {"puzzle", "solution", "user_grid", "notes", "mistakes",
    "elapsed_seconds", "difficulty"}

(* len(x) is defined *)
sized(x) == x.type \in {"list", "str"}

len(x) == IF x.type = "list" THEN Len(x.items) ELSE Len(x.value)

isinstance_int(x) == x.type \in {"int", "bool"}

(* x in range(lo, hi) *)
in_range(x, lo, hi) ==
   /\ x.type \in {"int", "bool"}
   /\ x.value \in lo .. (hi - 1)

(* len(grid) != 9 or any(len(row) != 9 for row in grid): the exception     *)
(* that comes of it, "ok" when the test is false; the rows of a str are    *)
(* its characters                                                          *)
size_check(grid) ==
   IF ~sized(grid) THEN "TypeError"
   ELSE IF len(grid) # 9 THEN "ValueError"
   ELSE IF grid.type = "str" THEN "ValueError"
   ELSE
      LET bad == {r \in 1 .. 9 :
                    ~sized(grid.items[r]) \/ len(grid.items[r]) # 9}
          first == CHOOSE r \in bad : \A q \in bad : r <= q
      IN  IF bad = {} THEN "ok"
          ELSE IF sized(grid.items[first]) THEN "ValueError"
          ELSE "TypeError"

(* mutation: the upper end of the range is off by one *)
validate_grid_admits_ten(grid) ==
   LET size == size_check(grid)
   IN  IF size # "ok" THEN size
       ELSE IF \A r \in 1 .. 9 :
                  /\ grid.items[r].type = "list"
                  /\ \A c \in 1 .. 9 :
                        /\ isinstance_int(grid.items[r].items[c])
                        /\ in_range(grid.items[r].items[c], 0, 11)
       THEN "ok"
       ELSE "ValueError"

(* _validate_grid: the exception it raises, "ok" when it returns *)
validate_grid(grid) ==
   LET size == size_check(grid)
   IN  IF size # "ok" THEN size
       ELSE IF \A r \in 1 .. 9 :
                  /\ grid.items[r].type = "list"
                  /\ \A c \in 1 .. 9 :
                        /\ isinstance_int(grid.items[r].items[c])
                        /\ in_range(grid.items[r].items[c], 0, 10)
       THEN "ok"
       ELSE "ValueError"

(* any(n not in range(1, 10) for n in cell) on one cell of notes *)
note_check(cell) ==
   IF cell.type = "list"
   THEN IF \A i \in 1 .. Len(cell.items) : in_range(cell.items[i], 1, 10)
        THEN "ok"
        ELSE "ValueError"
   ELSE IF cell.type = "str"
   THEN IF cell.value = "" THEN "ok" ELSE "ValueError"
   ELSE "TypeError"

(* the loop over the cells of notes, row by row: the first cell that       *)
(* raises decides                                                          *)
notes_check(notes) ==
   LET outcome(k) ==
          LET row == notes.items[((k - 1) \div 9) + 1]
          IN  IF row.type = "str" THEN "ValueError"
              ELSE note_check(row.items[((k - 1) % 9) + 1])
       bad == {k \in 1 .. 81 : outcome(k) # "ok"}
       first == CHOOSE k \in bad : \A q \in bad : k <= q
   IN  IF bad = {} THEN "ok" ELSE outcome(first)

(* payload["difficulty"] not in {"easy", "normal", "hard"} *)
difficulty_check(difficulty) ==
   IF difficulty.type \in {"list", "dict"} THEN "TypeError"
   ELSE IF difficulty.type = "str"
           /\ difficulty.value \in {"easy", "normal", "hard"}
   THEN "ok"
   ELSE "ValueError"

(* _validate_payload: the exception it raises, "ok" when it returns *)
validate_payload(payload) ==
   IF payload.type # "dict" THEN "AttributeError"
   ELSE IF REQUIRED \ DOMAIN payload.items # {} THEN "ValueError"
   ELSE
      LET doc == payload.items
          puzzle == validate_grid(doc.puzzle)
          solution == validate_grid(doc.solution)
          user_grid == validate_grid(doc.user_grid)
          size == size_check(doc.notes)
          notes == notes_check(doc.notes)
      IN  IF puzzle # "ok" THEN puzzle
          ELSE IF solution # "ok" THEN solution
          ELSE IF user_grid # "ok" THEN user_grid
          ELSE IF size # "ok" THEN size
          ELSE IF notes # "ok" THEN notes
          ELSE difficulty_check(doc.difficulty)

(* the grid of a validated payload as the game compares it *)
IntGrid(grid) ==
   [r \in 1 .. 9 |-> [c \in 1 .. 9 |-> grid.items[r].items[c].value]]

(* set(cell) for a cell of validated notes *)
SetOf(cell) ==
   IF cell.type = "list"
   THEN {cell.items[i].value : i \in 1 .. Len(cell.items)}
   ELSE {}

(* mutation: the mask of a loaded game is taken from the board *)
loaded_state_masks_board(payload, clock) ==
   [puzzle |-> IntGrid(payload.puzzle),
    solution |-> IntGrid(payload.solution),
    user_grid |-> IntGrid(payload.user_grid),
    notes |->
       [r \in 1 .. 9 |->
          [c \in 1 .. 9 |-> SetOf(payload.notes.items[r].items[c])]],
    fixed_mask |-> FixedMaskOf(IntGrid(payload.user_grid)),
    mistakes |-> payload.mistakes.value,
    elapsed_seconds |-> payload.elapsed_seconds.value,
    difficulty |-> payload.difficulty.value,
    started_at |-> clock - payload.elapsed_seconds.value * TicksPerSecond,
    hints_used |-> 0]

(* mutation: the timer of a loaded game starts at the clock *)
loaded_state_restarts_timer(payload, clock) ==
   [puzzle |-> IntGrid(payload.puzzle),
    solution |-> IntGrid(payload.solution),
    user_grid |-> IntGrid(payload.user_grid),
    notes |->
       [r \in 1 .. 9 |->
          [c \in 1 .. 9 |-> SetOf(payload.notes.items[r].items[c])]],
    fixed_mask |-> FixedMaskOf(IntGrid(payload.puzzle)),
    mistakes |-> payload.mistakes.value,
    elapsed_seconds |-> payload.elapsed_seconds.value,
    difficulty |-> payload.difficulty.value,
    started_at |-> clock,
    hints_used |-> 0]

(* GameState(...) as load_game builds it from a validated payload *)
loaded_state(payload, clock) ==
   [puzzle |-> IntGrid(payload.puzzle),
    solution |-> IntGrid(payload.solution),
    user_grid |-> IntGrid(payload.user_grid),
    notes |->
       [r \in 1 .. 9 |->
          [c \in 1 .. 9 |-> SetOf(payload.notes.items[r].items[c])]],
    fixed_mask |-> FixedMaskOf(IntGrid(payload.puzzle)),
    mistakes |-> payload.mistakes.value,
    elapsed_seconds |-> payload.elapsed_seconds.value,
    difficulty |-> payload.difficulty.value,
    started_at |-> clock - payload.elapsed_seconds.value * TicksPerSecond,
    hints_used |-> 0]

(* mutation: the difficulty is validated after self.state is assigned *)
load_game_validates_difficulty_late(a, content, clock) ==
   IF content.kind # "json" THEN [a EXCEPT !.dialog = "load_error"]
   ELSE
      LET raised == validate_payload(content.payload)
          payload == content.payload.items
          easy == [content.payload EXCEPT !.items.difficulty = PyStr("easy")]
      IN  IF raised = "ValueError"
          THEN IF validate_payload(easy) = "ok"
               THEN [a EXCEPT !.state = loaded_state(payload, clock),
                              !.dialog = "load_error"]
               ELSE [a EXCEPT !.dialog = "load_error"]
          ELSE IF raised # "ok" THEN a
          ELSE IF payload.elapsed_seconds.type
                     \notin {"int", "bool"}
          THEN a
          ELSE refresh_all(
                  [a EXCEPT
                     !.state = loaded_state(payload, clock),
                     !.difficulty_var = capitalize(payload.difficulty.value),
                     !.status_var = "Loaded"])

(* load_game on the content of the chosen file: "unreadable" raises        *)
(* OSError, "garbage" raises JSONDecodeError, "json" carries the payload.  *)
(* ValueError is caught with them and reported; any other exception leaves *)
(* the handler before self.state is assigned, and no dialog is shown       *)
load_game(a, content, clock) ==
   IF content.kind # "json" THEN [a EXCEPT !.dialog = "load_error"]
   ELSE
      LET raised == validate_payload(content.payload)
          payload == content.payload.items
      IN  IF raised = "ValueError" THEN [a EXCEPT !.dialog = "load_error"]
          ELSE IF raised # "ok" THEN a
          ELSE IF payload.elapsed_seconds.type
                     \notin {"int", "bool"}
          THEN a
          ELSE refresh_all(
                  [a EXCEPT
                     !.state = loaded_state(payload, clock),
                     !.difficulty_var = capitalize(payload.difficulty.value),
                     !.status_var = "Loaded"])

(* ---- save ------------------------------------------------------------- *)
(* sorted(list(cell)) *)
RECURSIVE sorted(_)
sorted(cell) ==
   IF cell = {} THEN <<>>
   ELSE LET least == CHOOSE n \in cell : \A m \in cell : n <= m
        IN  <<least>> \o sorted(cell \ {least})

(* the payload save_game builds *)
save_payload(a) ==
   [puzzle |-> a.state.puzzle,
    solution |-> a.state.solution,
    user_grid |-> a.state.user_grid,
    notes |-> [r \in 1 .. 9 |-> [c \in 1 .. 9 |-> sorted(a.state.notes[r][c])]],
    mistakes |-> a.state.mistakes,
    elapsed_seconds |-> a.state.elapsed_seconds,
    difficulty |-> a.state.difficulty]

(* save_game on a chosen path; written is FALSE when write_text raises     *)
(* OSError                                                                 *)
save_game(a, written) ==
   IF written
   THEN [a EXCEPT !.status_var = "Saved"]
   ELSE [a EXCEPT !.dialog = "save_error"]

(* ---- save files offered to load_game ---------------------------------- *)
EmptyNoteLists == [r \in 1 .. 9 |-> [c \in 1 .. 9 |-> <<>>]]

(* the easy game with two cells left, a pencil mark in one of them *)
EndgameDoc ==
   [puzzle |-> EasyPuzzle,
    solution |-> EasySolution,
    user_grid |-> Put(Put(EasySolution, 0, 1, 0), 8, 7, 0),
    notes |-> Put(EmptyNoteLists, 8, 7, <<5, 7, 7>>),
    mistakes |-> 0,
    elapsed_seconds |-> 1,
    difficulty |-> "easy"]

(* one cell left, and a solution grid that disagrees with the puzzle there *)
WrongSolutionDoc ==
   [EndgameDoc EXCEPT !.solution = Put(EasySolution, 0, 1, 9),
                      !.user_grid = Put(EasySolution, 0, 1, 0),
                      !.notes = EmptyNoteLists]

(* hand-edited: a given overwritten and a negative counter *)
EditedDoc ==
   [EndgameDoc EXCEPT !.user_grid = Put(Put(EasySolution, 0, 1, 0), 1, 1, 4),
                      !.notes = EmptyNoteLists,
                      !.mistakes = 0 - 1]

Without(doc, key) == [k \in (DOMAIN doc) \ {key} |-> doc[k]]

(* the files the file dialog offers, by name *)
Disk ==
   [endgame |-> [kind |-> "json", payload |-> loads_dumps(EndgameDoc)],
    wrong_solution |->
       [kind |-> "json", payload |-> loads_dumps(WrongSolutionDoc)],
    edited |-> [kind |-> "json", payload |-> loads_dumps(EditedDoc)],
    no_mistakes |->
       [kind |-> "json",
        payload |-> loads_dumps(Without(EndgameDoc, "mistakes"))],
    ten |->
       [kind |-> "json",
        payload |->
           loads_dumps([EndgameDoc EXCEPT !.user_grid = Put(@, 4, 4, 10)])],
    eight_rows |->
       [kind |-> "json",
        payload |->
           loads_dumps([EndgameDoc EXCEPT !.puzzle = SubSeq(@, 1, 8)])],
    note_zero |->
       [kind |-> "json",
        payload |->
           loads_dumps([EndgameDoc EXCEPT !.notes = Put(@, 0, 1, <<0>>)])],
    expert |->
       [kind |-> "json",
        payload |->
           loads_dumps([EndgameDoc EXCEPT !.difficulty = "expert"])],
    true_cell |->
       [kind |-> "json",
        payload |->
           [loads_dumps(EndgameDoc) EXCEPT
              !.items.user_grid.items[1].items[2] = PyBool(1)]],
    note_number |->
       [kind |-> "json",
        payload |->
           [loads_dumps(EndgameDoc) EXCEPT
              !.items.notes.items[1].items[2] = PyInt(5)]],
    elapsed_null |->
       [kind |-> "json",
        payload |->
           [loads_dumps(EndgameDoc) EXCEPT !.items.elapsed_seconds = PyNone]],
    array |-> [kind |-> "json", payload |-> PyList(<<>>)],
    unreadable |-> [kind |-> "unreadable"],
    garbage |-> [kind |-> "garbage"]]

(* the files that hold what save_game writes *)
SaveFiles == {"endgame", "wrong_solution", "edited"}

(* ---- the state machine ------------------------------------------------ *)
Event(type, arg) == [type |-> type, arg |-> arg]

Init ==
   /\ now = 0
   /\ file = NoFile
   /\ \E i \in 1 .. Len(PUZZLES["normal"]) :
         /\ state = new_state("normal", PUZZLES["normal"][i], 0)
         /\ conflicts = collect_conflicts(PUZZLES["normal"][i].puzzle)
   /\ selected = None
   /\ memo_mode = FALSE
   /\ difficulty_var = "Normal"
   /\ status_var = "Ready"
   /\ dialog = NoDialog
   /\ event = Event("init", "")

Click ==
   \E cell \in ClickCells :
      /\ Install(on_canvas_click(Entry, cell[1], cell[2]))
      /\ event' = Event("click", cell)
      /\ UNCHANGED <<now, file>>

KeyDigit ==
   \E char \in KeyDigits :
      LET b == on_key_press(Entry, char)
      IN  /\ b.state.mistakes <= MaxMistakes
          /\ Install(b)
          /\ event' = Event("key", char)
          /\ UNCHANGED <<now, file>>

KeyM ==
   /\ Install(on_key_press(Entry, "m"))
   /\ event' = Event("key", "m")
   /\ UNCHANGED <<now, file>>

KeyBackSpace ==
   /\ Install(on_key_press(Entry, "BackSpace"))
   /\ event' = Event("key", "BackSpace")
   /\ UNCHANGED <<now, file>>

NewGameButton ==
   \E i \in 1 .. Len(PUZZLES[mapping(difficulty_var)]) :
      /\ Install(new_game(Entry, PUZZLES[mapping(difficulty_var)][i], now))
      /\ event' = Event("new_game", "")
      /\ UNCHANGED <<now, file>>

(* <<ComboboxSelected>>: the combobox sets difficulty_var, then new_game *)
ComboboxSelected ==
   \E text \in ComboValues :
      LET a == [Entry EXCEPT !.difficulty_var = text]
      IN  \E i \in 1 .. Len(PUZZLES[mapping(text)]) :
             /\ Install(new_game(a, PUZZLES[mapping(text)][i], now))
             /\ event' = Event("new_game", text)
             /\ UNCHANGED <<now, file>>

ResetButton ==
   /\ Install(reset_game(Entry, now))
   /\ event' = Event("reset_game", "")
   /\ UNCHANGED <<now, file>>

CheckButton ==
   /\ Install(check_board(Entry))
   /\ event' = Event("check_board", "")
   /\ UNCHANGED <<now, file>>

HintButton ==
   /\ \/ /\ empties(Self) = {}
         /\ Install(give_hint(Entry, None))
      \/ \E cell \in empties(Self) :
            /\ Cardinality(empties(Self)) <= MaxEmpties
            /\ state.hints_used < MaxHints
            /\ Install(give_hint(Entry, cell))
   /\ event' = Event("give_hint", "")
   /\ UNCHANGED <<now, file>>

LoadGame ==
   \E path \in SaveFiles :
      /\ Install(load_game(Entry, Disk[path], now))
      /\ event' = Event("load_game", path)
      /\ UNCHANGED <<now, file>>

Tick ==
   /\ Install(tick_timer(Self, now))
   /\ event' = Event("tick_timer", "")
   /\ UNCHANGED <<now, file>>

AdvanceClock ==
   /\ now < MaxClock
   /\ now' = now + 1
   /\ event' = Event("clock", "")
   /\ UNCHANGED <<state, selected, conflicts, memo_mode, difficulty_var,
                  status_var, dialog, file>>

(* save_game: the file holds the payload, or write_text fails before or   *)
(* after it has truncated the file                                         *)
SaveGame ==
   /\ \/ /\ Install(save_game(Entry, TRUE))
         /\ file' = [kind |-> "json",
                     payload |-> loads_dumps(save_payload(Self))]
      \/ /\ Install(save_game(Entry, FALSE))
         /\ file' \in {file, [kind |-> "garbage"]}
   /\ event' = Event("save_game", "")
   /\ UNCHANGED now

(* load_game on the file save_game wrote *)
LoadSaved ==
   /\ file # NoFile
   /\ Install(load_game(Entry, file, now))
   /\ event' = Event("load_game", "saved")
   /\ UNCHANGED <<now, file>>

(* load_game on a file that is not a save file *)
LoadMalformed ==
   \E path \in (DOMAIN Disk) \ SaveFiles :
      /\ Install(load_game(Entry, Disk[path], now))
      /\ event' = Event("load_game", path)
      /\ UNCHANGED <<now, file>>

Next ==
   \/ Click
   \/ KeyDigit
   \/ KeyM
   \/ KeyBackSpace
   \/ NewGameButton
   \/ ComboboxSelected
   \/ ResetButton
   \/ CheckButton
   \/ HintButton
   \/ LoadGame

(* the game at one clock value: every intent of the player but save *)
Spec == Init /\ [][Next]_vars

(* the timer: the periodic tick against the clock, around deal, reset and *)
(* load                                                                    *)
NextTimer ==
   \/ Tick
   \/ AdvanceClock
   \/ ComboboxSelected
   \/ ResetButton
   \/ LoadGame

SpecTimer == Init /\ [][NextTimer]_vars

(* save and load: hints change the game between them *)
NextPersist ==
   \/ LoadGame
   \/ LoadMalformed
   \/ HintButton
   \/ SaveGame
   \/ LoadSaved

SpecPersist == Init /\ [][NextPersist]_vars

(* ---- conflict detection on its own ------------------------------------ *)
(* the grids _collect_conflicts is run on: MaxDigit bounds the digits, and *)
(* the cells that vary are a row pair, a column pair, a block pair and     *)
(* cells that share no unit                                                *)
ProbeCells == <<<<0, 0>>, <<0, 5>>, <<4, 0>>, <<1, 1>>, <<4, 5>>, <<8, 8>>>>

BlankGrid == [r \in 1 .. 9 |-> [c \in 1 .. 9 |-> 0]]

GridOf(digits) ==
   [r \in 1 .. 9 |->
      [c \in 1 .. 9 |->
         IF \E i \in DOMAIN ProbeCells : ProbeCells[i] = <<r - 1, c - 1>>
         THEN digits[CHOOSE i \in DOMAIN ProbeCells :
                        ProbeCells[i] = <<r - 1, c - 1>>]
         ELSE 0]]

Grids == {GridOf(digits) : digits \in [DOMAIN ProbeCells -> 0 .. MaxDigit]}

(* a save file without givens whose user_grid is the grid *)
GridFile(grid) ==
   [kind |-> "json",
    payload |-> loads_dumps([puzzle |-> BlankGrid,
                             solution |-> EasySolution,
                             user_grid |-> grid,
                             notes |-> EmptyNoteLists,
                             mistakes |-> 0,
                             elapsed_seconds |-> 0,
                             difficulty |-> "easy"])]

(* the app as __init__ leaves it *)
Booted ==
   [state |-> new_state("normal", PUZZLES["normal"][1], 0),
    selected |-> None,
    conflicts |-> collect_conflicts(PUZZLES["normal"][1].puzzle),
    memo_mode |-> FALSE,
    difficulty_var |-> "Normal",
    status_var |-> "Ready",
    dialog |-> NoDialog]

(* a grid of Grids is on the board, loaded from its file *)
InitConflicts ==
   \E grid \in Grids :
      LET a == load_game(Booted, GridFile(grid), 0)
      IN  /\ now = 0
          /\ file = NoFile
          /\ state = a.state
          /\ selected = a.selected
          /\ conflicts = a.conflicts
          /\ memo_mode = a.memo_mode
          /\ difficulty_var = a.difficulty_var
          /\ status_var = a.status_var
          /\ dialog = a.dialog
          /\ event = Event("load_game", "grid")

NextConflicts == CheckButton

SpecConflicts == InitConflicts /\ [][NextConflicts]_vars

(* ----------------------------------------------------------------------- *)
(* Play with the clock and the save file: an endgame of the easy puzzle    *)
(* was loaded at clock 0 and MaxClock half-seconds have passed since; the  *)
(* player edits, asks for hints, checks, resets, deals again, lets the     *)
(* timer fire and saves once.                                              *)
(* ----------------------------------------------------------------------- *)

InitPlay ==
   LET a == load_game(Booted, Disk["endgame"], 0)
   IN  /\ state = a.state
       /\ selected = a.selected
       /\ conflicts = a.conflicts
       /\ memo_mode = a.memo_mode
       /\ difficulty_var = a.difficulty_var
       /\ status_var = a.status_var
       /\ dialog = a.dialog
       /\ now = MaxClock
       /\ file = NoFile
       /\ event = Event("load_game", "endgame")

(* the first save of the session *)
SaveOnce == file = NoFile /\ SaveGame

NextPlay ==
   \/ Click
   \/ KeyDigit
   \/ KeyBackSpace
   \/ HintButton
   \/ CheckButton
   \/ ResetButton
   \/ NewGameButton
   \/ Tick
   \/ SaveOnce

SpecPlay == InitPlay /\ [][NextPlay]_vars

(* ----------------------------------------------------------------------- *)
(* Runs of hints: the easy puzzle is dealt, or reset after at most         *)
(* MaxHints hints, and the hint button is pressed until the board is full  *)
(* and once more.                                                          *)
(* ----------------------------------------------------------------------- *)

(* the first MaxChoice empty cells in row-major order *)
FirstEmpties(a) ==
   {cell \in empties(a) :
      Cardinality({other \in empties(a) :
                     other[1] * GRID_SIZE + other[2]
                        < cell[1] * GRID_SIZE + cell[2]}) < MaxChoice}

(* give_hint on any board, random.choice among the first empty cells *)
HintAmongFirst ==
   /\ \/ /\ empties(Self) = {}
         /\ Install(give_hint(Entry, None))
      \/ \E cell \in FirstEmpties(Self) :
            Install(give_hint(Entry, cell))
   /\ event' = Event("give_hint", "")
   /\ UNCHANGED <<now, file>>

(* reset_game early in a run of hints *)
ResetEarly == state.hints_used <= MaxHints /\ ResetButton

(* the easy puzzle has just been dealt *)
InitHints ==
   LET a == new_game([Booted EXCEPT !.difficulty_var = "Easy"],
                     PUZZLES["easy"][1], 0)
   IN  /\ state = a.state
       /\ selected = a.selected
       /\ conflicts = a.conflicts
       /\ memo_mode = a.memo_mode
       /\ difficulty_var = a.difficulty_var
       /\ status_var = a.status_var
       /\ dialog = a.dialog
       /\ now = 0
       /\ file = NoFile
       /\ event = Event("new_game", "Easy")

NextHints ==
   \/ NewGameButton
   \/ HintAmongFirst
   \/ ResetEarly

SpecHints == InitHints /\ [][NextHints]_vars

(* ======================================================================= *)
(* Properties                                                              *)
(* ======================================================================= *)

(* C1: every fixed cell shows the value the puzzle gives it: in every      *)
(* reachable state, fixed_mask[r][c] implies user_grid[r][c] = puzzle[r][c] *)
C1_FixedCellsKeepGivens ==
   \A cell \in Cells :
      Get(state.fixed_mask, cell[1], cell[2]) =>
         Get(state.user_grid, cell[1], cell[2])
            = Get(state.puzzle, cell[1], cell[2])

(* C2: a cell that holds a value holds no pencil marks: in every reachable *)
(* state, user_grid[r][c] # 0 implies notes[r][c] = {}                     *)
C2_FilledCellsHaveNoNotes ==
   \A cell \in Cells :
      Get(state.user_grid, cell[1], cell[2]) # 0 =>
         Get(state.notes, cell[1], cell[2]) = {}

(* ---- vocabulary of the properties ------------------------------------- *)
Fixed(cell) == Get(state.fixed_mask, cell[1], cell[2])

Value(cell) == Get(state.user_grid, cell[1], cell[2])

Answer(cell) == Get(state.solution, cell[1], cell[2])

NotesAt(cell) == Get(state.notes, cell[1], cell[2])

(* the step handles a digit key while a cell is selected: _apply_number on *)
(* the selected cell with the digit int[event'.arg]                        *)
DigitTyped ==
   /\ event'.type = "key"
   /\ event'.arg \in DOMAIN int
   /\ selected # None

(* the step handles BackSpace while a cell is selected: _clear_cell *)
ClearTyped ==
   /\ event'.type = "key"
   /\ event'.arg = "BackSpace"
   /\ selected # None

HintPressed == event'.type = "give_hint"

(* the completion predicate of a game state, computed from scratch *)
IsComplete(game) ==
   /\ \A cell \in Cells : Get(game.user_grid, cell[1], cell[2]) # 0
   /\ game.user_grid = game.solution
   /\ collect_conflicts(game.user_grid) = {}

(* full and free of conflicts, whatever the solution grid says *)
IsFullAndLegal(game) ==
   /\ \A cell \in Cells : Get(game.user_grid, cell[1], cell[2]) # 0
   /\ collect_conflicts(game.user_grid) = {}

(* C3: in every reachable state, _apply_number on any fixed cell, with any *)
(* digit 1..9 and with memo mode on or off, sets the status to the         *)
(* fixed-cell message and leaves user_grid, notes, mistakes and hints_used *)
(* as they were                                                            *)
C3_FixedCellEditRejected ==
   \A cell \in Cells : \A value \in 1 .. 9 : \A memo \in BOOLEAN :
      Get(state.fixed_mask, cell[1], cell[2]) =>
         LET b == apply_number([Entry EXCEPT !.memo_mode = memo],
                               cell[1], cell[2], value)
         IN  /\ b.status_var = "FixedCellEdit"
             /\ b.state.user_grid = state.user_grid
             /\ b.state.notes = state.notes
             /\ b.state.mistakes = state.mistakes
             /\ b.state.hints_used = state.hints_used

(* a digit was typed in memo mode on a selected fixed cell and rejected *)
C3_Witness ==
   /\ selected # None
   /\ Get(state.fixed_mask, selected[1], selected[2])
   /\ memo_mode
   /\ status_var = "FixedCellEdit"

(* C4: a digit typed on a non-fixed cell raises mistakes by exactly 1 when *)
(* memo mode is off and the digit differs from the solution, and leaves    *)
(* mistakes alone when it matches or when memo mode is on                  *)
C4_MistakeCounting ==
   [][(DigitTyped /\ ~Fixed(selected)) =>
         state'.mistakes =
            IF ~memo_mode /\ int[event'.arg] # Answer(selected)
            THEN state.mistakes + 1
            ELSE state.mistakes]_vars

(* a wrong digit was written over a cell and counted once *)
C4_Witness ==
   /\ event.type = "key"
   /\ event.arg \in DOMAIN int
   /\ selected # None
   /\ ~Fixed(selected)
   /\ ~memo_mode
   /\ Value(selected) = int[event.arg]
   /\ Value(selected) # Answer(selected)
   /\ status_var = "MaybeWrong"
   /\ state.mistakes = 1

(* C5: a digit typed outside memo mode on a non-fixed cell is written to   *)
(* user_grid whether or not it is the solution's digit and whatever the    *)
(* cell held before                                                        *)
C5_AcceptAndCount ==
   [][(DigitTyped /\ ~Fixed(selected) /\ ~memo_mode) =>
         state'.user_grid =
            Put(state.user_grid, selected[1], selected[2],
                int[event'.arg])]_vars

(* the easy puzzle, cell (0, 1) overwritten with 9 and one mistake counted *)
C5_Witness ==
   /\ state.puzzle = EasyPuzzle
   /\ state.solution = EasySolution
   /\ event = Event("key", "9")
   /\ selected = <<0, 1>>
   /\ ~memo_mode
   /\ Value(<<0, 1>>) = 9
   /\ state.mistakes = 1

(* C6: in memo mode on a non-fixed empty cell, _apply_number with digit v  *)
(* adds v to the cell's notes when absent and removes it when present, and *)
(* applying it twice with the same v gives back the notes it started from  *)
C6_NoteToggleInvolution ==
   \A value \in 1 .. 9 :
      (selected # None /\ ~Fixed(selected) /\ Value(selected) = 0) =>
         LET a == [Entry EXCEPT !.memo_mode = TRUE]
             once == apply_number(a, selected[1], selected[2], value)
             twice == apply_number(once, selected[1], selected[2], value)
         IN  /\ Get(once.state.notes, selected[1], selected[2])
                   = IF value \in NotesAt(selected)
                     THEN NotesAt(selected) \ {value}
                     ELSE NotesAt(selected) \cup {value}
             /\ twice.state.notes = state.notes

(* a note was just removed from an empty cell that keeps another note *)
C6_Witness ==
   /\ selected # None
   /\ ~Fixed(selected)
   /\ Value(selected) = 0
   /\ memo_mode
   /\ status_var = "NoteRemoved"
   /\ NotesAt(selected) # {}

(* C7: a digit typed outside memo mode on a non-fixed cell leaves that     *)
(* cell's notes empty, whatever they held                                  *)
C7_WriteClearsNotes ==
   [][(DigitTyped /\ ~Fixed(selected) /\ ~memo_mode) =>
         state'.notes =
            Put(state.notes, selected[1], selected[2], {})]_vars

(* a digit was written: the cell holds it and has no notes *)
C7_Witness ==
   /\ event.type = "key"
   /\ event.arg \in DOMAIN int
   /\ selected # None
   /\ ~Fixed(selected)
   /\ ~memo_mode
   /\ Value(selected) = int[event.arg]
   /\ NotesAt(selected) = {}
   /\ status_var = "Entered"

(* C8: BackSpace on a fixed cell sets the fixed-cell status and changes    *)
(* nothing of the game; on a non-fixed cell it sets the cell to 0 and      *)
(* empties its notes; mistakes is unchanged either way                     *)
C8_ClearCell ==
   [][ClearTyped =>
         /\ state'.mistakes = state.mistakes
         /\ Fixed(selected) =>
               /\ status_var' = "FixedCellEdit"
               /\ state' = state
               /\ conflicts' = conflicts
         /\ ~Fixed(selected) =>
               /\ state'.user_grid =
                     Put(state.user_grid, selected[1], selected[2], 0)
               /\ state'.notes =
                     Put(state.notes, selected[1], selected[2], {})]_vars

(* a counted mistake was cleared away and stays counted *)
C8_Witness ==
   /\ event = Event("key", "BackSpace")
   /\ selected # None
   /\ ~Fixed(selected)
   /\ Value(selected) = 0
   /\ NotesAt(selected) = {}
   /\ status_var = "Cleared"
   /\ state.mistakes = 1

(* C9: give_hint on a board with exactly one empty cell writes the         *)
(* solution's digit there and raises hints_used by 1; on a board with no   *)
(* empty cell it sets the no-empty-cell status and leaves the game as is   *)
C9_HintOnLastCellAndFullBoard ==
   [][HintPressed =>
         /\ empties(Self) = {} =>
               /\ status_var' = "NoEmptyCell"
               /\ state' = state
         /\ \A cell \in Cells :
               empties(Self) = {cell} =>
                  /\ state'.user_grid =
                        Put(state.user_grid, cell[1], cell[2], Answer(cell))
                  /\ state'.hints_used = state.hints_used + 1]_vars

(* a hint was asked for on a full board, after a hint had filled a cell *)
C9_Witness ==
   /\ event.type = "give_hint"
   /\ status_var = "NoEmptyCell"
   /\ \A cell \in Cells : Value(cell) # 0
   /\ state.hints_used >= 1

(* C10, as claimed: after every digit typed on a selected cell and after   *)
(* every hint request, the completion dialog is shown iff the grid is      *)
(* full, free of conflicts and equal to the solution                       *)
C10_AnnouncedIffComplete ==
   [][(DigitTyped \/ HintPressed) =>
         (dialog' = "clear" <=> IsComplete(state'))]_vars

(* C10, amended: after a digit typed on a non-fixed cell and after a hint  *)
(* that fills a cell, the completion dialog is shown iff the grid is full, *)
(* free of conflicts and equal to the solution                             *)
C10_AnnouncedIffCompleteWhenApplied ==
   [][(\/ DigitTyped /\ ~Fixed(selected)
       \/ HintPressed /\ empties(Self) # {}) =>
         /\ dialog' = "clear" <=> IsComplete(state')
         /\ dialog' = "clear" <=> status_var' = "GameClear"]_vars

(* a digit filled the last cell of a grid that is full and free of         *)
(* conflicts but differs from the solution grid: no dialog                 *)
C10_Witness ==
   /\ event.type = "key"
   /\ event.arg \in DOMAIN int
   /\ selected # None
   /\ ~Fixed(selected)
   /\ IsFullAndLegal(state)
   /\ state.user_grid # state.solution
   /\ dialog = NoDialog

(* C11: the completion dialog is shown only by a step that starts from a   *)
(* board that is not complete: a step from a complete board to a complete  *)
(* board (a digit in memo mode, the same digit typed again) shows nothing  *)
C11_AnnouncedOnlyOnTransition ==
   [][dialog' = "clear" => ~IsComplete(state)]_vars

(* two distinct cells in one row, one column or one 3x3 block *)
SameUnit(a, b) ==
   /\ a # b
   /\ \/ a[1] = b[1]
      \/ a[2] = b[2]
      \/ (a[1] \div 3 = b[1] \div 3 /\ a[2] \div 3 = b[2] \div 3)

(* C12: a cell is in the conflict set of the grid iff it is not empty and  *)
(* another cell of its row, column or block holds the same value; no empty *)
(* cell is in the set, and a cell marked because of a peer has that peer   *)
(* marked too                                                              *)
C12_ConflictsAreDuplicatesInUnits ==
   LET grid == state.user_grid
       found == collect_conflicts(grid)
   IN  /\ \A cell \in Cells :
             cell \in found <=>
                /\ Get(grid, cell[1], cell[2]) # 0
                /\ \E other \in Cells :
                      /\ SameUnit(cell, other)
                      /\ Get(grid, other[1], other[2])
                            = Get(grid, cell[1], cell[2])
       /\ \A cell \in found : Get(grid, cell[1], cell[2]) # 0
       /\ \A cell \in found : \A other \in Cells :
             (/\ SameUnit(cell, other)
              /\ Get(grid, other[1], other[2]) = Get(grid, cell[1], cell[2]))
                => other \in found

(* the check found (0,0) and (1,1), which share only a block, in conflict, *)
(* and not (8,8), which holds the same digit but shares no unit with them; *)
(* the empty cells are not marked                                          *)
C12_Witness ==
   /\ event.type = "check_board"
   /\ Value(<<0, 0>>) # 0
   /\ Value(<<1, 1>>) = Value(<<0, 0>>)
   /\ Value(<<8, 8>>) = Value(<<0, 0>>)
   /\ Value(<<0, 5>>) = 0
   /\ Value(<<4, 0>>) = 0
   /\ conflicts = {<<0, 0>>, <<1, 1>>}

(* C13: in every reachable state, loading the document that save_game     *)
(* builds from the game gives a game equal to it in puzzle, solution,      *)
(* user_grid, notes, fixed_mask, mistakes, elapsed_seconds, difficulty and *)
(* hints_used                                                              *)
C13_SaveLoadRoundTrip ==
   LET document == [kind |-> "json",
                    payload |-> loads_dumps(save_payload(Self))]
       loaded == load_game(Entry, document, now).state
   IN  \A field \in {"puzzle", "solution", "user_grid", "notes",
                     "fixed_mask", "mistakes", "elapsed_seconds",
                     "difficulty", "hints_used"} :
          loaded[field] = state[field]

(* ---- what the format asks of a document -------------------------------- *)
IsIntIn(x, lo, hi) == x.type = "int" /\ x.value \in lo .. hi

IsListOf(x, length) == x.type = "list" /\ Len(x.items) = length

(* 9 rows of 9 integers in 0..9 *)
IsGrid(grid) ==
   /\ IsListOf(grid, 9)
   /\ \A r \in 1 .. 9 :
         /\ IsListOf(grid.items[r], 9)
         /\ \A c \in 1 .. 9 : IsIntIn(grid.items[r].items[c], 0, 9)

(* 9 rows of 9 sequences of integers in 1..9 *)
IsNotes(notes) ==
   /\ IsListOf(notes, 9)
   /\ \A r \in 1 .. 9 :
         /\ IsListOf(notes.items[r], 9)
         /\ \A c \in 1 .. 9 :
               LET cell == notes.items[r].items[c]
               IN  /\ cell.type = "list"
                   /\ \A i \in 1 .. Len(cell.items) :
                         IsIntIn(cell.items[i], 1, 9)

(* the document has every required field, grids and notes of the right    *)
(* shape and a known difficulty                                            *)
MeetsFormat(payload) ==
   /\ payload.type = "dict"
   /\ REQUIRED \subseteq DOMAIN payload.items
   /\ \A key \in {"puzzle", "solution", "user_grid"} :
         IsGrid(payload.items[key])
   /\ IsNotes(payload.items.notes)
   /\ payload.items.difficulty.type = "str"
   /\ payload.items.difficulty.value \in {"easy", "normal", "hard"}

(* the step is load_game on a file; Opened is the content it read *)
LoadAttempted == event'.type = "load_game"

Opened == IF event'.arg = "saved" THEN file ELSE Disk[event'.arg]

(* C14: load_game on a JSON document that lacks a required field, or has a *)
(* grid that is not 9 rows of 9 integers in 0..9, or notes that are not    *)
(* 9x9 sequences of integers in 1..9, or an unknown difficulty, shows the  *)
(* load error and builds no GameState                                      *)
C14_MalformedDocumentRejected ==
   [][(LoadAttempted /\ Opened.kind = "json"
          /\ ~MeetsFormat(Opened.payload)) =>
         /\ dialog' = "load_error"
         /\ state' = state]_vars

(* the game a document describes, field by field; time in half seconds *)
FromDocument(doc, clock) ==
   [puzzle |-> [r \in 1 .. 9 |-> [c \in 1 .. 9 |->
                   doc.puzzle.items[r].items[c].value]],
    solution |-> [r \in 1 .. 9 |-> [c \in 1 .. 9 |->
                     doc.solution.items[r].items[c].value]],
    user_grid |-> [r \in 1 .. 9 |-> [c \in 1 .. 9 |->
                      doc.user_grid.items[r].items[c].value]],
    notes |-> [r \in 1 .. 9 |-> [c \in 1 .. 9 |->
                  {doc.notes.items[r].items[c].items[i].value :
                      i \in DOMAIN doc.notes.items[r].items[c].items}]],
    fixed_mask |-> [r \in 1 .. 9 |-> [c \in 1 .. 9 |->
                       doc.puzzle.items[r].items[c].value # 0]],
    mistakes |-> doc.mistakes.value,
    elapsed_seconds |-> doc.elapsed_seconds.value,
    difficulty |-> doc.difficulty.value,
    started_at |-> clock - doc.elapsed_seconds.value * TicksPerSecond,
    hints_used |-> 0]

(* C15: a load that shows the load error leaves the game as it was, and a  *)
(* load that changes the game at all leaves no dialog and a game that is   *)
(* the document's in every field                                           *)
C15_FailedLoadKeepsGame ==
   [][LoadAttempted =>
         /\ dialog' = "load_error" => state' = state
         /\ state' # state =>
               /\ dialog' = NoDialog
               /\ status_var' = "Loaded"
               /\ state' = FromDocument(Opened.payload.items, now)]_vars

(* a file with a 10 in user_grid was refused after a hint had been used:   *)
(* the game still counts the hint                                          *)
C15_Witness ==
   /\ event = Event("load_game", "ten")
   /\ dialog = "load_error"
   /\ status_var = "HintUsed"
   /\ state.hints_used = 1

ResetPressed == event'.type = "reset_game"

(* C16: reset_game makes user_grid equal to puzzle cell for cell, empties  *)
(* every note set, sets mistakes and elapsed_seconds to 0 and started_at   *)
(* to the clock, and leaves puzzle, solution and difficulty as they were   *)
C16_ResetEffect ==
   [][ResetPressed =>
         /\ \A cell \in Cells :
               /\ Get(state'.user_grid, cell[1], cell[2])
                     = Get(state.puzzle, cell[1], cell[2])
               /\ Get(state'.notes, cell[1], cell[2]) = {}
         /\ state'.mistakes = 0
         /\ state'.elapsed_seconds = 0
         /\ state'.started_at = now
         /\ state'.puzzle = state.puzzle
         /\ state'.solution = state.solution
         /\ state'.difficulty = state.difficulty]_vars

(* the easy game, loaded with one second on its timer, was reset when the  *)
(* clock stood at 2 half seconds                                           *)
C16_Witness ==
   /\ event.type = "reset_game"
   /\ state.puzzle = EasyPuzzle
   /\ state.user_grid = EasyPuzzle
   /\ now = 2
   /\ state.started_at = 2
   /\ state.elapsed_seconds = 0

(* C17: after reset_game every field but puzzle, solution and difficulty  *)
(* has the value a fresh deal of the same puzzle gives it: user_grid is    *)
(* the puzzle, notes are empty, fixed_mask marks the givens, and mistakes, *)
(* elapsed_seconds and hints_used are 0                                    *)
C17_ResetRestoresFreshDeal ==
   [][ResetPressed =>
         /\ state'.user_grid = state.puzzle
         /\ state'.notes = EmptyNotes
         /\ state'.fixed_mask = FixedMaskOf(state.puzzle)
         /\ state'.mistakes = 0
         /\ state'.elapsed_seconds = 0
         /\ state'.started_at = now
         /\ state'.hints_used = 0]_vars

NewGameStarted == event'.type = "new_game"

(* the catalog entries of the difficulty the combobox shows *)
Catalog(text) ==
   CASE text = "Easy" -> {[puzzle |-> EasyPuzzle, solution |-> EasySolution]}
     [] text = "Normal" ->
           {[puzzle |-> NormalPuzzle, solution |-> NormalSolution]}
     [] text = "Hard" -> {[puzzle |-> HardPuzzle, solution |-> HardSolution]}

(* C18: new_game for the difficulty the combobox shows, from any state,    *)
(* leaves a game whose puzzle and solution are a catalog entry of that     *)
(* difficulty, whose user_grid is the puzzle, whose fixed_mask marks the   *)
(* non-zero puzzle cells, with no notes, with mistakes, elapsed_seconds    *)
(* and hints_used 0, and with no cell selected                             *)
C18_NewGame ==
   [][NewGameStarted =>
         /\ [puzzle |-> state'.puzzle, solution |-> state'.solution]
               \in Catalog(difficulty_var')
         /\ capitalize(state'.difficulty) = difficulty_var'
         /\ state'.user_grid = state'.puzzle
         /\ \A cell \in Cells :
               /\ Get(state'.fixed_mask, cell[1], cell[2])
                     <=> Get(state'.puzzle, cell[1], cell[2]) # 0
               /\ Get(state'.notes, cell[1], cell[2]) = {}
         /\ state'.mistakes = 0
         /\ state'.elapsed_seconds = 0
         /\ state'.hints_used = 0
         /\ selected' = None]_vars

(* the hard puzzle was dealt from the combobox *)
C18_Witness ==
   /\ event = Event("new_game", "Hard")
   /\ difficulty_var = "Hard"
   /\ state.difficulty = "hard"
   /\ state.puzzle = HardPuzzle
   /\ state.user_grid = HardPuzzle
   /\ selected = None
   /\ status_var = "NewGame"

(* C19: in every reachable state, one tick at the current clock changes   *)
(* nothing but elapsed_seconds, which becomes the whole seconds between    *)
(* started_at and the clock, and a second tick at the same clock changes   *)
(* nothing                                                                 *)
C19_TickOnlyDerivesElapsed ==
   LET once == tick_timer(Self, now)
       twice == tick_timer(once, now)
       seconds == once.state.elapsed_seconds
   IN  /\ once = [Self EXCEPT !.state.elapsed_seconds = seconds]
       /\ seconds * TicksPerSecond <= now - state.started_at
       /\ now - state.started_at < (seconds + 1) * TicksPerSecond
       /\ twice = once

(* a tick one and a half seconds after the start: elapsed_seconds is 1 *)
C19_Witness ==
   /\ event.type = "tick_timer"
   /\ now - state.started_at = 3
   /\ state.elapsed_seconds = 1

CheckPressed == event'.type = "check_board"

(* the non-empty cells of the grid that share a row, column or block with  *)
(* an equal cell                                                           *)
Duplicates(grid) ==
   {cell \in Cells :
      /\ Get(grid, cell[1], cell[2]) # 0
      /\ \E other \in Cells :
            /\ SameUnit(cell, other)
            /\ Get(grid, other[1], other[2]) = Get(grid, cell[1], cell[2])}

(* C20: check_board leaves the conflict set of user_grid in self.conflicts *)
(* and changes no field of the game: puzzle, solution, user_grid, notes,   *)
(* fixed_mask, mistakes, hints_used and difficulty are as before           *)
C20_CheckIsReadOnly ==
   [][CheckPressed =>
         /\ conflicts' = Duplicates(state.user_grid)
         /\ \A field \in {"puzzle", "solution", "user_grid", "notes",
                           "fixed_mask", "mistakes", "hints_used",
                           "difficulty"} :
               state'[field] = state[field]]_vars

(* a check found conflicts on a board with a counted mistake *)
C20_Witness ==
   /\ event.type = "check_board"
   /\ status_var = "Conflicts"
   /\ conflicts # {}
   /\ state.mistakes = 1

(* the nine digits, each once *)
IsPermutation(values) == values = 1 .. 9

(* every row, column and 3x3 block of the grid holds 1..9, each once *)
IsValidSolution(grid) ==
   /\ \A r \in Rows : IsPermutation({Get(grid, r, c) : c \in Rows})
   /\ \A c \in Rows : IsPermutation({Get(grid, r, c) : r \in Rows})
   /\ \A br \in {0, 3, 6} : \A bc \in {0, 3, 6} :
         IsPermutation({Get(grid, br + i, bc + j) : i, j \in 0 .. 2})

IsWellFormedEntry(entry) ==
   /\ IsValidSolution(entry.solution)
   /\ \A cell \in Cells :
         Get(entry.puzzle, cell[1], cell[2]) # 0 =>
            Get(entry.solution, cell[1], cell[2])
               = Get(entry.puzzle, cell[1], cell[2])

(* C21: every entry of PUZZLES, for easy, normal and hard, has a solution  *)
(* whose rows, columns and blocks are permutations of 1..9 and which       *)
(* agrees with the puzzle at every non-zero puzzle cell; so has every game *)
(* as it is dealt                                                          *)
C21_CatalogWellFormed ==
   /\ \A difficulty \in DOMAIN PUZZLES :
         \A i \in 1 .. Len(PUZZLES[difficulty]) :
            IsWellFormedEntry(PUZZLES[difficulty][i])
   /\ event.type \in {"init", "new_game"} =>
         IsWellFormedEntry([puzzle |-> state.puzzle,
                            solution |-> state.solution])

(* the hard entry has been dealt *)
C21_Witness ==
   /\ event.type = "new_game"
   /\ state.difficulty = "hard"
   /\ state.puzzle = PUZZLES["hard"][1].puzzle
   /\ state.solution = PUZZLES["hard"][1].solution
   /\ state.user_grid = state.puzzle

(* C22: give_hint on a board with an empty cell writes the solution's     *)
(* digit into one cell that was empty and into no other cell, empties the  *)
(* notes of that cell and of no other, raises hints_used by exactly 1 and  *)
(* leaves mistakes alone                                                   *)
C22_HintFillsOneEmptyCell ==
   [][(HintPressed /\ empties(Self) # {}) =>
         /\ \E cell \in Cells :
               /\ Value(cell) = 0
               /\ state'.user_grid =
                     Put(state.user_grid, cell[1], cell[2], Answer(cell))
               /\ state'.notes = Put(state.notes, cell[1], cell[2], {})
         /\ Cardinality({cell \in Cells :
                            Get(state'.user_grid, cell[1], cell[2])
                               # Value(cell)}) = 1
         /\ \A cell \in Cells :
               Value(cell) # 0 =>
                  Get(state'.user_grid, cell[1], cell[2]) = Value(cell)
         /\ state'.hints_used = state.hints_used + 1
         /\ state'.mistakes = state.mistakes]_vars

(* of the two empty cells of the loaded game the hint filled (8, 7), which *)
(* had notes, and left (0, 1) empty                                        *)
C22_Witness ==
   /\ event.type = "give_hint"
   /\ status_var = "HintUsed"
   /\ state.hints_used = 1
   /\ Value(<<8, 7>>) = Answer(<<8, 7>>)
   /\ NotesAt(<<8, 7>>) = {}
   /\ Value(<<0, 1>>) = 0

(* the load of the step succeeded: the file meets the format and its board *)
(* is now the board of the game                                            *)
LoadSucceeded ==
   /\ LoadAttempted
   /\ dialog' = NoDialog
   /\ status_var' = "Loaded"
   /\ Opened.kind = "json"
   /\ MeetsFormat(Opened.payload)
   /\ state'.user_grid
         = [r \in 1 .. 9 |-> [c \in 1 .. 9 |->
              Opened.payload.items.user_grid.items[r].items[c].value]]

(* C23: after a successful load of a document with elapsed_seconds = e the *)
(* start timestamp is e seconds before the clock, a tick at the same clock *)
(* gives elapsed_seconds = e, and a tick d whole seconds later gives e + d *)
C23_LoadedTimerContinues ==
   [][LoadSucceeded =>
         LET e == Opened.payload.items.elapsed_seconds.value
             loaded == [Self EXCEPT !.state = state']
         IN  /\ state'.started_at = now - e * TicksPerSecond
             /\ \A d \in 0 .. MaxClock :
                   tick_timer(loaded, now + d * TicksPerSecond)
                      .state.elapsed_seconds = e + d]_vars

(* a game saved at one second was loaded when the clock stood at 0 and     *)
(* ticked one second later: the timer shows two seconds                    *)
C23_Witness ==
   /\ event.type = "tick_timer"
   /\ status_var = "Loaded"
   /\ now = 2
   /\ state.started_at = 0 - 2
   /\ state.elapsed_seconds = 2

(* the step runs one of the operations that work on the game in play: a   *)
(* key, a hint, a reset, a check, a timer tick or a save                   *)
PlayStep ==
   event'.type \in {"key", "give_hint", "reset_game", "check_board",
                    "tick_timer", "save_game"}

(* C24: enterValue, clearCell, hint, reset, checkConflicts, tick and save  *)
(* leave the puzzle and the solution of the game in play as they were, and *)
(* a reset or a new game after any editing deals the givens of the         *)
(* catalog entry again                                                     *)
C24_PuzzleAndSolutionAreFrame ==
   /\ [][PlayStep =>
            /\ state'.puzzle = state.puzzle
            /\ state'.solution = state.solution
            /\ state'.puzzle = PUZZLES["easy"][1].puzzle
            /\ state'.solution = PUZZLES["easy"][1].solution
            /\ ResetPressed =>
                  state'.user_grid = PUZZLES["easy"][1].puzzle]_vars
   /\ [][NewGameStarted =>
            /\ state'.puzzle = PUZZLES["easy"][1].puzzle
            /\ state'.solution = PUZZLES["easy"][1].solution
            /\ state'.user_grid = PUZZLES["easy"][1].puzzle]_vars

(* C24 witness: after a hint and a save the reset has dealt the givens of  *)
(* the easy puzzle again                                                   *)
C24_Witness ==
   /\ event.type = "reset_game"
   /\ state.hints_used > 0
   /\ file.kind = "json"
   /\ state.user_grid = PUZZLES["easy"][1].puzzle
   /\ state.puzzle = PUZZLES["easy"][1].puzzle

(* the step runs an operation other than new_game, reset_game or load_game *)
CountingStep ==
   event'.type \in {"key", "give_hint", "check_board", "tick_timer",
                    "save_game"}

(* C25: along enterValue, clearCell, hint, checkConflicts, tick and save   *)
(* steps neither mistakes nor hints_used decreases                         *)
C25_CountersNeverDecrease ==
   [][CountingStep =>
         /\ state'.mistakes >= state.mistakes
         /\ state'.hints_used >= state.hints_used]_vars

(* C25 witness: a wrong digit was counted and cleared again after a hint;  *)
(* both counters stand                                                     *)
C25_Witness ==
   /\ event = Event("key", "BackSpace")
   /\ selected # None
   /\ ~Fixed(selected)
   /\ Value(selected) = 0
   /\ state.mistakes > 0
   /\ state.hints_used > 0

(* the mask marks exactly the cells the puzzle gives *)
MaskMatchesPuzzle(game) ==
   \A cell \in Cells :
      Get(game.fixed_mask, cell[1], cell[2])
         = (Get(game.puzzle, cell[1], cell[2]) # 0)

(* C26: in every reachable state, also after a successful load,            *)
(* fixed_mask[r][c] is (puzzle[r][c] # 0); a load takes neither fixed_mask *)
(* nor hints_used from the document: the mask is derived from the          *)
(* document's puzzle and hints_used is 0                                   *)
C26_MaskDerivedFromPuzzle ==
   /\ []MaskMatchesPuzzle(state)
   /\ [][LoadSucceeded =>
            /\ state'.hints_used = 0
            /\ \A cell \in Cells :
                  Get(state'.fixed_mask, cell[1], cell[2])
                     = (Opened.payload.items.puzzle
                           .items[cell[1] + 1].items[cell[2] + 1].value # 0)
         ]_vars

(* C26 witness: a game saved with its last cells filled by hints is on the *)
(* board again: the filled cells are not fixed, and the hints counted      *)
(* before the save are gone                                                *)
C26_Witness ==
   /\ event = Event("load_game", "saved")
   /\ status_var = "Loaded"
   /\ state.hints_used = 0
   /\ file.kind = "json"
   /\ \E cell \in Cells :
         /\ Value(cell) # 0
         /\ Get(state.puzzle, cell[1], cell[2]) = 0
         /\ ~Fixed(cell)
   /\ \A cell \in Cells :
         file.payload.items.user_grid
            .items[cell[1] + 1].items[cell[2] + 1].value # 0

(* C27: after every operation that returns (new game, reset, digit, clear, *)
(* hint, check, successful load) the conflict set the application holds is *)
(* the conflict set of user_grid computed from scratch                     *)
C27_ConflictCacheIsFresh == conflicts = Duplicates(state.user_grid)

(* C27 witness: a typed digit has put a duplicate on the board and the     *)
(* conflict set holds it and its peer                                      *)
C27_Witness ==
   /\ event.type = "key"
   /\ event.arg \in DOMAIN int
   /\ selected # None
   /\ Value(selected) = int[event.arg]
   /\ selected \in conflicts
   /\ Cardinality(conflicts) >= 2

(* the number of cells the grid leaves empty *)
Blanks(grid) ==
   Cardinality({cell \in Cells : Get(grid, cell[1], cell[2]) = 0})

(* C28: in a run of hints from a fresh deal or a reset with N empty cells  *)
(* each hint leaves one empty cell less; the hint that fills the last cell *)
(* makes the board equal to the solution and announces completion with     *)
(* hints_used = N and mistakes = 0, and the hint after it reports that no  *)
(* cell is empty and changes nothing                                       *)
C28_HintRunCompletes ==
   [][HintPressed =>
         IF Blanks(state.user_grid) = 0
         THEN /\ status_var' = "NoEmptyCell"
              /\ state' = state
         ELSE /\ Blanks(state'.user_grid) = Blanks(state.user_grid) - 1
              /\ Blanks(state.user_grid) = 1 =>
                    /\ state'.user_grid = state.solution
                    /\ dialog' = "clear"
                    /\ status_var' = "GameClear"
                    /\ state'.mistakes = 0
                    /\ state'.hints_used = Blanks(state.puzzle)]_vars

(* nine rows of nine values in 0 .. 9 *)
IsBoard(grid) ==
   /\ DOMAIN grid = 1 .. 9
   /\ \A r \in 1 .. 9 :
         /\ DOMAIN grid[r] = 1 .. 9
         /\ \A c \in 1 .. 9 : grid[r][c] \in 0 .. 9

(* C29: in every reachable state, also after a load, puzzle, solution and  *)
(* user_grid are 9x9 with every value in 0..9, notes is 9x9 with every     *)
(* note set a subset of 1..9, and difficulty is easy, normal or hard       *)
C29_TypeInvariant ==
   /\ IsBoard(state.puzzle)
   /\ IsBoard(state.solution)
   /\ IsBoard(state.user_grid)
   /\ DOMAIN state.notes = 1 .. 9
   /\ \A r \in 1 .. 9 :
         /\ DOMAIN state.notes[r] = 1 .. 9
         /\ \A c \in 1 .. 9 : state.notes[r][c] \subseteq 1 .. 9
   /\ state.difficulty \in {"easy", "normal", "hard"}

(* C29 witness: the document with the JSON value true in user_grid was     *)
(* accepted, and the cell holds 1                                          *)
C29_Witness ==
   /\ event = Event("load_game", "true_cell")
   /\ status_var = "Loaded"
   /\ dialog = NoDialog
   /\ Value(<<0, 1>>) = 1
   /\ NotesAt(<<8, 7>>) = {5, 7}

(* C30: in every reachable state, also after a load, mistakes >= 0 and     *)
(* elapsed_seconds >= 0: a document with a negative counter never becomes  *)
(* the game                                                                *)
C30_CountersNotNegative ==
   /\ state.mistakes >= 0
   /\ state.elapsed_seconds >= 0

====
